---------------------------- MODULE Spec2Model ----------------------------
(***************************************************************************)
(* A model of Player/app/music_server.py: the MusicScanner (scan_directory *)
(* and _extract_track_info with its three tag getters) and the Flask       *)
(* handlers that read and replace the global catalog music_library.        *)
(*                                                                         *)
(* Text is a sequence of one-character strings, so that lower(), the       *)
(* substring test `in`, suffix and stem are computed rather than assumed.  *)
(* A path is a record [dirs, name]: the directory components and the base  *)
(* name as text.  A file's content is what mutagen and os.stat report for  *)
(* it: these are outside the program and are drawn from bounded sets.      *)
(***************************************************************************)
EXTENDS Integers, Sequences, FiniteSets, TLC

VARIABLES
    x_path,         \* SpecExtract: the argument file_path
    x_file,         \* SpecExtract: what mutagen/stat report for that file
    x_out,          \* SpecExtract: "pending", or the value returned
    s_root,         \* SpecScan: the argument `directory`
    s_exists,       \* SpecScan: whether that directory exists
    s_listing,      \* SpecScan: what rglob('*') yields, in traversal order
    s_idx,          \* SpecScan: number of listing entries visited so far
    s_tracks,       \* SpecScan: the local list `tracks`
    s_pc,           \* SpecScan: "start", "walk", "returned"
    s_scan,         \* SpecRescan: 1 or 2, the scan_directory call under way
    s_first,        \* SpecRescan: what the first call returned
    s_changed,      \* SpecRescan (history): a file's content changed between the calls
    rootExists,     \* Spec: whether MUSIC_DIR exists on disk
    disk,           \* Spec: the paths that exist on disk
    music_library,  \* Spec: the global catalog (line 36)
    th,             \* Spec: per request thread, the handler it runs and its locals
    finished,       \* Spec (history): the lists returned by finished scan_directory calls
    nscans          \* Spec (history): number of scan_library requests started

extractVars == <<x_path, x_file, x_out>>
scanVars    == <<s_root, s_exists, s_listing, s_idx, s_tracks, s_pc,
                 s_scan, s_first, s_changed>>
serverVars  == <<rootExists, disk, music_library, th, finished, nscans>>
vars        == <<x_path, x_file, x_out,
                 s_root, s_exists, s_listing, s_idx, s_tracks, s_pc,
                 s_scan, s_first, s_changed,
                 rootExists, disk, music_library, th, finished, nscans>>

-----------------------------------------------------------------------------
(* Bounds of the model.                                                    *)

\* most tags a file carries in SpecExtract
MaxTags == 2
\* most entries a directory listing holds in SpecScan
MaxFiles == 3
\* most scan_library requests started in one behaviour of Spec
MaxScans == 3

-----------------------------------------------------------------------------
(* Text.                                                                   *)

UpperCase ==
    <<"A","B","C","D","E","F","G","H","I","J","K","L","M",
      "N","O","P","Q","R","S","T","U","V","W","X","Y","Z">>

LowerCase ==
    <<"a","b","c","d","e","f","g","h","i","j","k","l","m",
      "n","o","p","q","r","s","t","u","v","w","x","y","z">>

\* str.lower() on one character
LowerChar(c) ==
    IF \E i \in 1..26 : UpperCase[i] = c
    THEN LowerCase[CHOOSE i \in 1..26 : UpperCase[i] = c]
    ELSE c

\* str.upper() on one character
UpperChar(c) ==
    IF \E i \in 1..26 : LowerCase[i] = c
    THEN UpperCase[CHOOSE i \in 1..26 : LowerCase[i] = c]
    ELSE c

\* str.lower()
Lower(s) == [i \in 1..Len(s) |-> LowerChar(s[i])]

\* str.upper()
Upper(s) == [i \in 1..Len(s) |-> UpperChar(s[i])]

\* the Python test `q in s` on two strings
StrIn(q, s) ==
    \E i \in 0..(Len(s) - Len(q)) : SubSeq(s, i + 1, i + Len(q)) = q

\* str.rfind('.'), 1-based, 0 when there is no dot
RFindDot(name) ==
    IF \E i \in 1..Len(name) : name[i] = "."
    THEN CHOOSE i \in 1..Len(name) :
            /\ name[i] = "."
            /\ \A j \in (i + 1)..Len(name) : name[j] # "."
    ELSE 0

\* PurePath.suffix: the last dot and what follows, unless the dot leads or ends the name
Suffix(name) ==
    LET i == RFindDot(name)
    IN  IF 1 < i /\ i < Len(name) THEN SubSeq(name, i, Len(name)) ELSE <<>>

\* PurePath.stem: the name without its suffix
Stem(name) ==
    LET i == RFindDot(name)
    IN  IF 1 < i /\ i < Len(name) THEN SubSeq(name, 1, i - 1) ELSE name

\* a string that is empty or holds only whitespace
IsBlank(s) == \A i \in 1..Len(s) : s[i] \in {" ", "\t"}

-----------------------------------------------------------------------------
(* Paths and configuration.                                                *)

\* MUSIC_DIR, the default of line 31
MUSIC_DIR == <<"media", "music">>

SUPPORTED_FORMATS ==
    { <<".","m","p","3">>, <<".","m","p","4">>, <<".","m","4","a">>,
      <<".","f","l","a","c">>, <<".","o","g","g">>, <<".","w","a","v">> }

IsPrefix(p, s) == Len(p) <= Len(s) /\ SubSeq(s, 1, Len(p)) = p

\* PurePath.relative_to(base): the remainder of the path, or ValueError
RelativeTo(path, base) ==
    IF IsPrefix(base, path.dirs)
    THEN [dirs |-> SubSeq(path.dirs, Len(base) + 1, Len(path.dirs)), name |-> path.name]
    ELSE "ValueError"

\* hashlib.md5(str(path).encode()).hexdigest(): a digest is not computed here; it
\* is a value determined by the path string, distinct for the distinct paths of
\* the model (a 128-bit collision is outside the bounded universe).
Md5Hex(path) == [md5 |-> path]


-----------------------------------------------------------------------------
(* What mutagen and the filesystem report for one file.                    *)
(*   mutagen : what mutagen.File(file_path) does: "oserror" (it raises on  *)
(*             a file it cannot open), "corrupt" (it raises on a container *)
(*             it selected and cannot parse), "none" (it returns None: no  *)
(*             container recognised), or the class of the object returned, *)
(*             "MP3", "MP4", "FLAC", or "other" (OggVorbis, WAVE, ...)     *)
(*   info    : whether the object has a truthy .info, and info.length in   *)
(*             milliseconds                                                *)
(*   tags    : audio_file.tags as a sequence of [key, value] in iteration  *)
(*             order; None and the empty mapping are both <<>> (both are   *)
(*             falsy at lines 103, 133, 141, 149)                          *)
(*   stat    : whether file_path.stat() succeeds, and st_size              *)
(* A tag value is a list of strings, [list |-> TRUE, items |-> <<..>>], or *)
(* an object that is not a list (an ID3 frame), [list |-> FALSE, str |-> s]*)
(* where s is what str() gives for it.                                     *)

PyNone == [some |-> FALSE]
Some(s) == [some |-> TRUE, s |-> s]

\* `x or default` for x a string or None: None and "" are falsy
OrElse(x, default) == IF x.some /\ x.s # <<>> THEN x.s ELSE default

\* str(value) of a tag value: str of a frame; repr of a list
PyStr(value) ==
    IF value.list
    THEN IF value.items = <<>> THEN <<"[", "]">>
         ELSE <<"[", "'">> \o value.items[1] \o <<"'", "]">>
    ELSE value.str

\* `tag_name in audio_file.tags` on a dict-like tag mapping (ID3, MP4Tags)
HasKey(tags, key) == \E i \in 1..Len(tags) : tags[i].key = key

\* audio_file.tags[tag_name]
Lookup(tags, key) == tags[CHOOSE i \in 1..Len(tags) : tags[i].key = key].value

\* the same two operations on mutagen's Vorbis comments, whose keys compare
\* case-insensitively
VorbisHasKey(tags, key) == \E i \in 1..Len(tags) : Lower(tags[i].key) = Lower(key)

VorbisLookup(tags, key) ==
    tags[CHOOSE i \in 1..Len(tags) :
            /\ Lower(tags[i].key) = Lower(key)
            /\ \A j \in 1..(i - 1) : Lower(tags[j].key) # Lower(key)].value

\* lines 135, 143, 151: str(value[0]) if isinstance(value, list) and value else str(value)
FirstOrStr(value) ==
    IF value.list /\ value.items # <<>> THEN value.items[1] ELSE PyStr(value)

_get_id3_tag(tags, tag_name) ==
    IF tags # <<>> /\ HasKey(tags, tag_name)
    THEN Some(FirstOrStr(Lookup(tags, tag_name)))
    ELSE PyNone

_get_mp4_tag(tags, tag_name) ==
    IF tags # <<>> /\ HasKey(tags, tag_name)
    THEN Some(FirstOrStr(Lookup(tags, tag_name)))
    ELSE PyNone

_get_vorbis_tag(tags, tag_name) ==
    IF tags # <<>> /\ VorbisHasKey(tags, Upper(tag_name))
    THEN Some(FirstOrStr(VorbisLookup(tags, Upper(tag_name))))
    ELSE PyNone

\* the tag keys the code names
TIT2 == <<"T","I","T","2">>
TPE1 == <<"T","P","E","1">>
TALB == <<"T","A","L","B">>
\* "(c)" stands for the one character \xa9
MP4nam == <<"(c)","n","a","m">>
MP4ART == <<"(c)","A","R","T">>
MP4alb == <<"(c)","a","l","b">>
TITLE == <<"T","I","T","L","E">>
ARTIST == <<"A","R","T","I","S","T">>
ALBUM == <<"A","L","B","U","M">>

UnknownArtist ==
    <<"U","n","k","n","o","w","n"," ","A","r","t","i","s","t">>
UnknownAlbum ==
    <<"U","n","k","n","o","w","n"," ","A","l","b","u","m">>

\* the three words the generic branch looks for (lines 106-110)
w_title == <<"t","i","t","l","e">>
w_artist == <<"a","r","t","i","s","t">>
w_album == <<"a","l","b","u","m">>

\* line 107: str(value[0] if isinstance(value, list) else value); value[0] of an
\* empty list raises IndexError
GenericRaises(value) == value.list /\ value.items = <<>>

GenericStr(value) == IF value.list THEN value.items[1] ELSE PyStr(value)

\* lines 104-111: one pass of the loop body over tags[i], on the three locals
GenericStep(acc, tag) ==
    LET key_lower == Lower(tag.key)
    IN  IF acc.raised THEN acc
        ELSE IF StrIn(w_title, key_lower)
        THEN IF GenericRaises(tag.value) THEN [acc EXCEPT !.raised = TRUE]
             ELSE [acc EXCEPT !.title = GenericStr(tag.value)]
        ELSE IF StrIn(w_artist, key_lower)
        THEN IF GenericRaises(tag.value) THEN [acc EXCEPT !.raised = TRUE]
             ELSE [acc EXCEPT !.artist = GenericStr(tag.value)]
        ELSE IF StrIn(w_album, key_lower)
        THEN IF GenericRaises(tag.value) THEN [acc EXCEPT !.raised = TRUE]
             ELSE [acc EXCEPT !.album = GenericStr(tag.value)]
        ELSE acc

RECURSIVE GenericLoop(_, _, _)
\* lines 103-111: the for loop over tags.items(), from index i on
GenericLoop(tags, i, acc) ==
    IF i > Len(tags) THEN acc
    ELSE GenericLoop(tags, i + 1, GenericStep(acc, tags[i]))

\* TagDispatch with a named scheme's miss retried by the generic heuristic
TagDispatchRetriesGeneric(file_path, f) ==
    LET d == [title |-> Stem(file_path.name), artist |-> UnknownArtist,
              album |-> UnknownAlbum, raised |-> FALSE]
        g == GenericLoop(f.tags, 1, d)
        k == IF f.mutagen = "MP3" THEN <<TIT2, TPE1, TALB>>
             ELSE IF f.mutagen = "MP4" THEN <<MP4nam, MP4ART, MP4alb>>
             ELSE <<TITLE, ARTIST, ALBUM>>
    IN  IF f.mutagen = "none" THEN d
        ELSE IF f.mutagen \in {"MP3", "MP4", "FLAC"}
        THEN [g EXCEPT !.title  = OrElse(_get_vorbis_tag(f.tags, k[1]), g.title),
                       !.artist = OrElse(_get_vorbis_tag(f.tags, k[2]), g.artist),
                       !.album  = OrElse(_get_vorbis_tag(f.tags, k[3]), g.album)]
        ELSE g

\* lines 78-111: the three locals after the defaults and the dispatch
TagDispatch(file_path, f) ==
    LET d == [title |-> Stem(file_path.name), artist |-> UnknownArtist,
              album |-> UnknownAlbum, raised |-> FALSE]
    IN  IF f.mutagen = "none" THEN d
        ELSE IF f.mutagen = "MP3"
        THEN [d EXCEPT !.title  = OrElse(_get_id3_tag(f.tags, TIT2), d.title),
                       !.artist = OrElse(_get_id3_tag(f.tags, TPE1), d.artist),
                       !.album  = OrElse(_get_id3_tag(f.tags, TALB), d.album)]
        ELSE IF f.mutagen = "MP4"
        THEN [d EXCEPT !.title  = OrElse(_get_mp4_tag(f.tags, MP4nam), d.title),
                       !.artist = OrElse(_get_mp4_tag(f.tags, MP4ART), d.artist),
                       !.album  = OrElse(_get_mp4_tag(f.tags, MP4alb), d.album)]
        ELSE IF f.mutagen = "FLAC"
        THEN [d EXCEPT !.title  = OrElse(_get_vorbis_tag(f.tags, TITLE), d.title),
                       !.artist = OrElse(_get_vorbis_tag(f.tags, ARTIST), d.artist),
                       !.album  = OrElse(_get_vorbis_tag(f.tags, ALBUM), d.album)]
        ELSE GenericLoop(f.tags, 1, d)

\* round(duration, 2): milliseconds to hundredths of a second (the lengths of the
\* model are not ties)
Round2(ms) == (ms + 5) \div 10

\* lines 81-86: duration stays 0 unless the object has a truthy info
Duration(f) ==
    IF f.mutagen # "none" /\ f.info.has THEN f.info.length ELSE 0

None == [none |-> TRUE]

\* _extract_track_info with the id taken from the file's content, not its path
ExtractIdFromContent(file_path, f) ==
    IF f.mutagen \in {"oserror", "corrupt"} THEN None
    ELSE LET t == TagDispatch(file_path, f)
         IN  IF t.raised THEN None
             ELSE IF ~IsPrefix(MUSIC_DIR, file_path.dirs) THEN None
             ELSE IF ~f.stat.ok THEN None
             ELSE [id            |-> Md5Hex(f),
                   title         |-> t.title,
                   artist        |-> t.artist,
                   album         |-> t.album,
                   filename      |-> file_path.name,
                   path          |-> file_path,
                   relative_path |-> RelativeTo(file_path, MUSIC_DIR),
                   duration      |-> Round2(Duration(f)),
                   size          |-> f.stat.size,
                   format        |-> Tail(Lower(Suffix(file_path.name)))]

\* _extract_track_info with a container that fails to parse treated like an
\* unrecognised one: a minimal record instead of None
ExtractKeepsCorrupt(file_path, f) ==
    IF f.mutagen = "oserror" THEN None
    ELSE LET g == IF f.mutagen = "corrupt" THEN [f EXCEPT !.mutagen = "none"] ELSE f
             t == TagDispatch(file_path, g)
         IN  IF t.raised THEN None
             ELSE IF ~IsPrefix(MUSIC_DIR, file_path.dirs) THEN None
             ELSE IF ~f.stat.ok THEN None
             ELSE [id            |-> Md5Hex(file_path),
                   title         |-> t.title,
                   artist        |-> t.artist,
                   album         |-> t.album,
                   filename      |-> file_path.name,
                   path          |-> file_path,
                   relative_path |-> RelativeTo(file_path, MUSIC_DIR),
                   duration      |-> Round2(Duration(g)),
                   size          |-> f.stat.size,
                   format        |-> Tail(Lower(Suffix(file_path.name)))]

\* lines 68-128. Every exception raised in the body is caught at line 126 and
\* turns into None.
_extract_track_info(file_path, f) ==
    IF f.mutagen \in {"oserror", "corrupt"} THEN None
    ELSE LET t == TagDispatch(file_path, f)
         IN  IF t.raised THEN None
             ELSE IF ~IsPrefix(MUSIC_DIR, file_path.dirs) THEN None
             ELSE IF ~f.stat.ok THEN None
             ELSE [id            |-> Md5Hex(file_path),
                   title         |-> t.title,
                   artist        |-> t.artist,
                   album         |-> t.album,
                   filename      |-> file_path.name,
                   path          |-> file_path,
                   relative_path |-> RelativeTo(file_path, MUSIC_DIR),
                   duration      |-> Round2(Duration(f)),
                   size          |-> f.stat.size,
                   format        |-> Tail(Lower(Suffix(file_path.name)))]

-----------------------------------------------------------------------------
(* scan_directory.  A directory listing is the sequence rglob('*') yields: *)
(* entries [path, file] in traversal order.                                *)

\* lines 56-62 with the result appended whether or not it is None
VisitAppendsNone(tracks, entry) ==
    IF Lower(Suffix(entry.path.name)) \in SUPPORTED_FORMATS
    THEN Append(tracks, _extract_track_info(entry.path, entry.file))
    ELSE tracks

\* lines 56-62: the loop body on one entry of the listing. _extract_track_info
\* catches every exception itself, so the handler of line 61 has nothing to catch.
VisitFile(tracks, entry) ==
    IF Lower(Suffix(entry.path.name)) \in SUPPORTED_FORMATS
    THEN LET track_info == _extract_track_info(entry.path, entry.file)
         IN  IF track_info # None THEN Append(tracks, track_info) ELSE tracks
    ELSE tracks

RECURSIVE WalkFrom(_, _, _)
\* lines 55-62: the loop from entry i on
WalkFrom(listing, i, tracks) ==
    IF i > Len(listing) THEN tracks
    ELSE WalkFrom(listing, i + 1, VisitFile(tracks, listing[i]))

\* lines 44-65: scan_directory on a directory that exists or not
scan_directory(exists, listing) ==
    IF ~exists THEN <<>> ELSE WalkFrom(listing, 1, <<>>)

-----------------------------------------------------------------------------
(* The handlers that only read the catalog, as functions of what they read. *)

\* stream_track without the test of line 186
StreamSkipsExists(lib, ondisk, track_id) ==
    IF \E i \in 1..Len(lib) : lib[i].id = track_id
    THEN LET track == lib[CHOOSE i \in 1..Len(lib) :
                            /\ lib[i].id = track_id
                            /\ \A j \in 1..(i - 1) : lib[j].id # track_id]
         IN  [status |-> 200, file |-> track.path]
    ELSE [status |-> 404]

\* lines 178-199: the first record with the id, 404 when there is none or its
\* path is not on disk, otherwise the path handed to send_file
stream_track(lib, ondisk, track_id) ==
    IF \E i \in 1..Len(lib) : lib[i].id = track_id
    THEN LET track == lib[CHOOSE i \in 1..Len(lib) :
                            /\ lib[i].id = track_id
                            /\ \A j \in 1..(i - 1) : lib[j].id # track_id]
         IN  IF track.path \notin ondisk
             THEN [status |-> 404]
             ELSE [status |-> 200, file |-> track.path]
    ELSE [status |-> 404]

\* search_tracks with the fields compared as they are, not lowercased
SearchCaseSensitive(lib, q) ==
    LET query == Lower(q)
    IN  IF query = <<>> THEN lib
        ELSE SelectSeq(lib, LAMBDA track :
                \/ StrIn(query, track.title)
                \/ StrIn(query, track.artist)
                \/ StrIn(query, track.album))

\* lines 201-215
search_tracks(lib, q) ==
    LET query == Lower(q)
    IN  IF query = <<>> THEN lib
        ELSE SelectSeq(lib, LAMBDA track :
                \/ StrIn(query, Lower(track.title))
                \/ StrIn(query, Lower(track.artist))
                \/ StrIn(query, Lower(track.album)))

-----------------------------------------------------------------------------
(* The bounded universe of files.                                          *)

T_Song == <<"S","o">>
T_Space == <<" ">>
T_Empty == <<>>
T_Xy == <<"X","y">>

\* a tag key of no named scheme that holds both "album" and "artist"
K_albumartist == <<"a","l","b","u","m","a","r","t","i","s","t">>
\* a lower-case Vorbis-style key
K_title == <<"t","i","t","l","e">>
\* a second key that holds "title"
K_titlesort == <<"t","i","t","l","e","s","o","r","t">>

\* the keys a file of each container may carry: the family's own and some of
\* other schemes
KeysFor(kind) ==
    IF kind = "MP3" THEN {TIT2, TPE1, TALB, TITLE, K_albumartist}
    ELSE IF kind = "MP4" THEN {MP4nam, MP4ART, MP4alb, TITLE, K_albumartist}
    ELSE IF kind = "FLAC" THEN {TITLE, ARTIST, ALBUM, K_title, K_albumartist}
    ELSE {TITLE, ARTIST, ALBUM, K_title, K_titlesort, K_albumartist, TIT2}

TagValues ==
    { [list |-> TRUE,  items |-> <<T_Song>>],
      [list |-> TRUE,  items |-> <<T_Space>>],
      [list |-> TRUE,  items |-> <<T_Empty>>],
      [list |-> TRUE,  items |-> <<>>],
      [list |-> TRUE,  items |-> <<T_Xy, T_Song>>],
      [list |-> FALSE, str |-> T_Song] }

\* the key sequences of length k over the keys of `kind`: the keys of a mapping
\* are distinct (also when case is ignored, as Vorbis field names are)
KeySeqs(kind, k) ==
    { ks \in [1..k -> KeysFor(kind)] :
        \A i, j \in 1..k : i # j => Lower(ks[i]) # Lower(ks[j]) }

\* tag mappings of at most n entries over the keys of `kind`
TagSeqs(kind, n) ==
    UNION { { [i \in 1..k |-> [key |-> ks[i], value |-> vs[i]]] :
                ks \in KeySeqs(kind, k), vs \in [1..k -> TagValues] }
            : k \in 0..n }

P_a == [dirs |-> MUSIC_DIR, name |-> <<"a",".","m","p","3">>]
P_sub == [dirs |-> MUSIC_DIR \o <<"rock">>, name |-> <<"B","b",".","F","L","A","C">>]
P_out == [dirs |-> <<"mnt", "usb">>, name |-> <<"c",".","o","g","g">>]

NoInfo == [has |-> FALSE, length |-> 0]
SomeInfo == [has |-> TRUE, length |-> 2347]
StatFails == [ok |-> FALSE, size |-> 0]
StatOk == [ok |-> TRUE, size |-> 7]
Containers == {"MP3", "MP4", "FLAC", "other"}

\* the files of one container with at most n tags
FilesOf(kind, n, infos, stats) ==
    [mutagen : {kind}, info : infos, tags : TagSeqs(kind, n), stat : stats]

\* the files mutagen returns no object for: there is no info and no tags
FilesNotLoaded ==
    [mutagen : {"oserror", "corrupt", "none"}, info : {NoInfo}, tags : {<<>>},
     stat : {StatFails, StatOk}]

\* the inputs of SpecExtract with few tags: every combination of path, mutagen
\* outcome, info and stat, on tag mappings of at most n entries
VariedInputs(n) ==
    { [path |-> p, file |-> f] :
        p \in {P_a, P_sub, P_out},
        f \in FilesNotLoaded
              \cup UNION { FilesOf(k, n, {NoInfo, SomeInfo}, {StatFails, StatOk})
                           : k \in Containers } }

-----------------------------------------------------------------------------
(* SpecExtract: _extract_track_info applied to one file.                   *)

Pending == [pending |-> TRUE]

ExtractIdle ==
    /\ x_path = P_a
    /\ x_file = [mutagen |-> "none", info |-> [has |-> FALSE, length |-> 0],
                 tags |-> <<>>, stat |-> [ok |-> TRUE, size |-> 7]]
    /\ x_out = Pending

ScanIdle ==
    /\ s_root = MUSIC_DIR
    /\ s_exists = FALSE
    /\ s_listing = <<>>
    /\ s_idx = 0
    /\ s_tracks = <<>>
    /\ s_pc = "start"
    /\ s_scan = 1
    /\ s_first = <<>>
    /\ s_changed = FALSE

ServerIdle ==
    /\ rootExists = FALSE
    /\ disk = {}
    /\ music_library = <<>>
    /\ th = <<>>
    /\ finished = {}
    /\ nscans = 0

\* the inputs: every tag mapping of at most MaxTags entries on a file that
\* parses, and the varied inputs on mappings of at most one entry
InitExtract ==
    /\ \/ \E kind \in Containers, k \in 0..MaxTags :
            \E ks \in KeySeqs(kind, k), vs \in [1..k -> TagValues] :
                /\ x_path = P_a
                /\ x_file = [mutagen |-> kind, info |-> SomeInfo, stat |-> StatOk,
                             tags |-> [i \in 1..k |-> [key |-> ks[i], value |-> vs[i]]]]
       \/ \E in \in VariedInputs(1) : x_path = in.path /\ x_file = in.file
    /\ x_out = Pending
    /\ ScanIdle
    /\ ServerIdle

\* one call of _extract_track_info(file_path)
ExtractCall ==
    /\ x_out = Pending
    /\ x_out' = _extract_track_info(x_path, x_file)
    /\ UNCHANGED <<x_path, x_file, scanVars, serverVars>>

NextExtract == ExtractCall

SpecExtract == InitExtract /\ [][NextExtract]_vars

-----------------------------------------------------------------------------
(* Claims about _extract_track_info, under SpecExtract.                    *)

Returned == x_out # Pending
ReturnedRecord == x_out # Pending /\ x_out # None

NamedFamilies == {"MP3", "MP4", "FLAC"}

\* the fixed keys of a named family, as [title, artist, album]
SchemeKeys(kind) ==
    IF kind = "MP3" THEN [title |-> TIT2, artist |-> TPE1, album |-> TALB]
    ELSE IF kind = "MP4" THEN [title |-> MP4nam, artist |-> MP4ART, album |-> MP4alb]
    ELSE [title |-> TITLE, artist |-> ARTIST, album |-> ALBUM]

\* a stored key is the scheme key (Vorbis field names ignore case)
IsSchemeKey(kind, stored, key) ==
    IF kind = "FLAC" THEN Upper(stored) = key ELSE stored = key

KeyPresent(kind, tags, key) ==
    \E i \in 1..Len(tags) : IsSchemeKey(kind, tags[i].key, key)

OnlySchemeKeys(kind, tags) ==
    LET k == SchemeKeys(kind)
    IN  SelectSeq(tags, LAMBDA tg : \/ IsSchemeKey(kind, tg.key, k.title)
                                    \/ IsSchemeKey(kind, tg.key, k.artist)
                                    \/ IsSchemeKey(kind, tg.key, k.album))

\* a tag of the mapping that the generic heuristic would take for `word`
GenericWouldMatch(tags, word) ==
    \E i \in 1..Len(tags) : StrIn(word, Lower(tags[i].key))

\* the conditions under which some step of the body raises
SomeStepRaises(file_path, f) ==
    \/ f.mutagen \in {"oserror", "corrupt"}
    \/ ~f.stat.ok
    \/ ~IsPrefix(MUSIC_DIR, file_path.dirs)
    \/ /\ f.mutagen = "other"
       /\ \E i \in 1..Len(f.tags) :
            /\ \/ GenericWouldMatch(<<f.tags[i]>>, w_title)
               \/ GenericWouldMatch(<<f.tags[i]>>, w_artist)
               \/ GenericWouldMatch(<<f.tags[i]>>, w_album)
            /\ f.tags[i].value = [list |-> TRUE, items |-> <<>>]

\* a filesystem-level error: the file cannot be opened, or stat fails
FilesystemError(f) == f.mutagen = "oserror" \/ ~f.stat.ok

\* the record of placeholders of C8, with a given duration
MinimalRecord(file_path, f, duration) ==
    /\ x_out.id = Md5Hex(file_path)
    /\ x_out.title = Stem(file_path.name)
    /\ x_out.artist = UnknownArtist
    /\ x_out.album = UnknownAlbum
    /\ x_out.duration = duration
    /\ x_out.size = f.stat.size

\* C8 as stated: null only for filesystem-level errors; a file that exists and
\* is readable but cannot be parsed, or carries no tags, yields the record of
\* placeholders with duration 0.
C8_NullOnlyForFilesystemErrors ==
    Returned =>
        /\ (x_out = None => FilesystemError(x_file))
        /\ (/\ ~FilesystemError(x_file)
            /\ x_file.mutagen \in {"corrupt", "none"} \/ x_file.tags = <<>>)
           => /\ x_out # None
              /\ MinimalRecord(x_path, x_file, 0)

\* C8 amended: _extract_track_info returns null exactly when a step of its body
\* raises (mutagen.File on a file it cannot open or cannot parse, value[0] of an
\* empty list in the generic branch, relative_to(MUSIC_DIR) on a path outside
\* MUSIC_DIR, stat); otherwise, when mutagen.File returns None or the container
\* carries no tags, the result is the record of placeholders, with duration 0
\* when there is no container or no info and the rounded length otherwise.
C8_NullExactlyWhenAStepRaises ==
    Returned =>
        /\ (x_out = None <=> SomeStepRaises(x_path, x_file))
        /\ (x_out # None /\ (x_file.mutagen = "none" \/ x_file.tags = <<>>))
           => MinimalRecord(x_path, x_file,
                  IF x_file.mutagen = "none" \/ ~x_file.info.has THEN 0
                  ELSE Round2(x_file.info.length))

\* a readable file whose container fails to parse has returned null
C8_Witness ==
    /\ x_out = None
    /\ x_file.mutagen = "corrupt"
    /\ x_file.stat.ok
    /\ IsPrefix(MUSIC_DIR, x_path.dirs)

\* C9: for a container of a named family (MP3, MP4, FLAC) the result depends on
\* that family's three fixed keys only (it equals the result for the same file
\* with every other tag removed), and a field whose fixed key is missing keeps
\* its placeholder, whatever the generic heuristic would find.
C9_DispatchSelectsOneScheme ==
    (ReturnedRecord /\ x_file.mutagen \in NamedFamilies) =>
        LET kind == x_file.mutagen
            k == SchemeKeys(kind)
        IN  /\ x_out = _extract_track_info(x_path,
                          [x_file EXCEPT !.tags = OnlySchemeKeys(kind, x_file.tags)])
            /\ ~KeyPresent(kind, x_file.tags, k.title)
                  => x_out.title = Stem(x_path.name)
            /\ ~KeyPresent(kind, x_file.tags, k.artist)
                  => x_out.artist = UnknownArtist
            /\ ~KeyPresent(kind, x_file.tags, k.album)
                  => x_out.album = UnknownAlbum

\* a FLAC with TITLE set and no ARTIST, carrying a key the generic heuristic
\* would take for the artist, has kept "Unknown Artist"
C9_Witness ==
    /\ ReturnedRecord
    /\ x_file.mutagen = "FLAC"
    /\ KeyPresent("FLAC", x_file.tags, TITLE)
    /\ ~KeyPresent("FLAC", x_file.tags, ARTIST)
    /\ GenericWouldMatch(x_file.tags, w_artist)
    /\ x_out.title = T_Song
    /\ x_out.artist = UnknownArtist

\* C10 as stated: no record has an empty or whitespace-only title, artist or
\* album (the stems and placeholders of the model are not blank, so a blank
\* field can only come from a tag).
C10_BlankTagNeverOverwrites ==
    ReturnedRecord =>
        /\ ~IsBlank(x_out.title)
        /\ ~IsBlank(x_out.artist)
        /\ ~IsBlank(x_out.album)

\* the first element of a list value, the value itself otherwise
FirstElement(value) == IF value.list THEN value.items[1] ELSE value.str

\* the positions of the tags whose lowercased key contains `word`
KeysContaining(tags, word) ==
    { i \in 1..Len(tags) : StrIn(word, Lower(tags[i].key)) }

\* the value of the first tag, in iteration order, whose key contains `word`
FirstMatch(tags, word) ==
    LET m == KeysContaining(tags, word)
    IN  FirstElement(tags[CHOOSE i \in m : \A j \in m : i <= j].value)

\* C11 as stated: in the generic fallback, each of title, artist and album is
\* the value (the first element, for a list) of the first tag in iteration
\* order whose lowercased key contains "title", "artist" or "album"
\* respectively; later matching keys do not change it.
C11_FirstMatchingKeyWins ==
    (ReturnedRecord /\ x_file.mutagen = "other") =>
        /\ KeysContaining(x_file.tags, w_title) # {}
              => x_out.title = FirstMatch(x_file.tags, w_title)
        /\ KeysContaining(x_file.tags, w_artist) # {}
              => x_out.artist = FirstMatch(x_file.tags, w_artist)
        /\ KeysContaining(x_file.tags, w_album) # {}
              => x_out.album = FirstMatch(x_file.tags, w_album)

-----------------------------------------------------------------------------
(* SpecScan: scan_directory(directory) on one directory tree.              *)

SubRoot == MUSIC_DIR \o <<"rock">>
OtherRoot == <<"mnt", "usb">>
ScanRoots == {MUSIC_DIR, SubRoot, OtherRoot}

F_mp3 == [mutagen |-> "MP3", info |-> [has |-> TRUE, length |-> 2347],
          tags |-> <<[key |-> TIT2, value |-> [list |-> FALSE, str |-> T_Song]]>>,
          stat |-> [ok |-> TRUE, size |-> 7]]
F_flac == [mutagen |-> "FLAC", info |-> [has |-> TRUE, length |-> 2347],
           tags |-> <<>>, stat |-> [ok |-> TRUE, size |-> 7]]
F_ogg == [mutagen |-> "other", info |-> [has |-> FALSE, length |-> 0],
          tags |-> <<[key |-> K_title, value |-> [list |-> TRUE, items |-> <<T_Song>>]]>>,
          stat |-> [ok |-> TRUE, size |-> 7]]
F_text == [mutagen |-> "none", info |-> [has |-> FALSE, length |-> 0],
           tags |-> <<>>, stat |-> [ok |-> TRUE, size |-> 7]]
F_corrupt == [F_mp3 EXCEPT !.mutagen = "corrupt", !.tags = <<>>]
F_unreadable == [F_mp3 EXCEPT !.mutagen = "oserror", !.tags = <<>>]

N_a == <<"a",".","m","p","3">>
N_B == <<"B","b",".","F","L","A","C">>
N_c == <<"c",".","o","g","g">>
N_notes == <<"n",".","t","x","t">>

\* the entries a tree under `root` may hold: names in the root and in its
\* subdirectory "live", each with the contents it may have
EntriesUnder(root) ==
    [path : {[dirs |-> root, name |-> N_a]}, file : {F_mp3, F_corrupt, F_unreadable}]
    \cup [path : {[dirs |-> root \o <<"live">>, name |-> N_B]}, file : {F_flac, F_mp3}]
    \cup [path : {[dirs |-> root, name |-> N_c]}, file : {F_ogg, F_corrupt}]
    \cup [path : {[dirs |-> root, name |-> N_notes]}, file : {F_text}]

\* listings of at most n entries: the paths of a tree are distinct
Listings(root, n) ==
    UNION { { l \in [1..k -> EntriesUnder(root)] :
                \A i, j \in 1..k : i # j => l[i].path # l[j].path } : k \in 0..n }

InitScan ==
    /\ s_root \in ScanRoots
    /\ s_exists \in BOOLEAN
    /\ s_listing \in (IF s_exists THEN Listings(s_root, MaxFiles) ELSE {<<>>})
    /\ s_idx = 0
    /\ s_tracks = <<>>
    /\ s_pc = "start"
    /\ s_scan = 1
    /\ s_first = <<>>
    /\ s_changed = FALSE
    /\ ExtractIdle
    /\ ServerIdle

\* lines 46-53: the empty list, and the early return when the directory is missing
ScanBegin ==
    /\ s_pc = "start"
    /\ s_tracks' = <<>>
    /\ s_pc' = IF s_exists THEN "walk" ELSE "returned"
    /\ UNCHANGED <<s_root, s_exists, s_listing, s_idx, s_scan, s_first, s_changed,
                   extractVars, serverVars>>

\* lines 55-62: one iteration of the loop
ScanVisit ==
    /\ s_pc = "walk"
    /\ s_idx < Len(s_listing)
    /\ s_idx' = s_idx + 1
    /\ s_tracks' = VisitFile(s_tracks, s_listing[s_idx + 1])
    /\ UNCHANGED <<s_root, s_exists, s_listing, s_pc, s_scan, s_first, s_changed,
                   extractVars, serverVars>>

\* lines 64-65: the loop is over, return tracks
ScanReturn ==
    /\ s_pc = "walk"
    /\ s_idx = Len(s_listing)
    /\ s_pc' = "returned"
    /\ UNCHANGED <<s_root, s_exists, s_listing, s_idx, s_tracks,
                   s_scan, s_first, s_changed, extractVars, serverVars>>

NextScan == ScanBegin \/ ScanVisit \/ ScanReturn

SpecScan == InitScan /\ [][NextScan]_vars

-----------------------------------------------------------------------------
(* Claims about scan_directory, under SpecScan.                            *)

Supported(entry) == Lower(Suffix(entry.path.name)) \in SUPPORTED_FORMATS

\* the file itself lets every step of the extraction succeed: it opens, its
\* container parses, its tag values are not empty lists, stat succeeds
SoundFile(f) == ~SomeStepRaises(P_a, f)

Extracts(entry) == _extract_track_info(entry.path, entry.file) # None

\* C4: when scan_directory has returned, the files whose extraction failed have
\* contributed nothing and stopped nothing: the result is the result of scanning
\* the tree without them, it holds one record per supported file that extracts,
\* none of its elements is null, and the walk has visited every entry.
C4_FailureIsIsolated ==
    (s_pc = "returned" /\ s_exists) =>
        /\ s_idx = Len(s_listing)
        /\ s_tracks = scan_directory(TRUE,
                          SelectSeq(s_listing, LAMBDA e : ~Supported(e) \/ Extracts(e)))
        /\ Len(s_tracks) =
              Cardinality({i \in 1..Len(s_listing) :
                              Supported(s_listing[i]) /\ Extracts(s_listing[i])})
        /\ \A i \in 1..Len(s_tracks) : s_tracks[i] # None

\* a tree of two files that extract and one corrupt file between them has
\* yielded exactly two records
C4_Witness ==
    /\ s_pc = "returned"
    /\ Len(s_listing) = 3
    /\ Extracts(s_listing[1])
    /\ Supported(s_listing[2]) /\ s_listing[2].file.mutagen = "corrupt"
    /\ Extracts(s_listing[3])
    /\ Len(s_tracks) = 2

\* C7 as stated: for any root passed to scan_directory, the result holds, in
\* traversal order, one record for every file under it that has a supported
\* extension and is sound, no record for any other file, and each record's
\* relative_path is its path relative to the scanned root.
C7_AnyRootIsScanned ==
    (s_pc = "returned" /\ s_exists) =>
        LET want == SelectSeq(s_listing, LAMBDA e : Supported(e) /\ SoundFile(e.file))
        IN  /\ Len(s_tracks) = Len(want)
            /\ \A i \in 1..Len(want) :
                  /\ s_tracks[i].path = want[i].path
                  /\ s_tracks[i].relative_path =
                        [dirs |-> SubSeq(want[i].path.dirs, Len(s_root) + 1,
                                         Len(want[i].path.dirs)),
                         name |-> want[i].path.name]

-----------------------------------------------------------------------------
(* SpecRescan: scan_directory called twice on the same tree.  Between the  *)
(* calls the set of paths stays the same; the traversal order may differ   *)
(* (rglob's order is the filesystem's) and a file's content may be         *)
(* rewritten in place.                                                     *)

Elements(seq) == { seq[i] : i \in 1..Len(seq) }

PathsOf(listing) == { listing[i].path : i \in 1..Len(listing) }

\* the listings of the same paths as `listing`, in any order, with any content
Relistings(root, listing) ==
    { l \in [1..Len(listing) -> EntriesUnder(root)] :
        /\ PathsOf(l) = PathsOf(listing)
        /\ \A i, j \in 1..Len(l) : i # j => l[i].path # l[j].path }

\* the first call has returned; the second call of scan_directory(directory)
\* is made, lines 44-47
ScanAgain ==
    /\ s_pc = "returned"
    /\ s_scan = 1
    /\ s_scan' = 2
    /\ s_first' = s_tracks
    /\ \E l \in Relistings(s_root, s_listing) :
          /\ s_listing' = l
          /\ s_changed' = (Elements(l) # Elements(s_listing))
    /\ s_idx' = 0
    /\ s_tracks' = <<>>
    /\ s_pc' = "start"
    /\ UNCHANGED <<s_root, s_exists, extractVars, serverVars>>

NextRescan == ScanBegin \/ ScanVisit \/ ScanReturn \/ ScanAgain

SpecRescan == InitScan /\ [][NextRescan]_vars

\* C12: when the second of two scan_directory calls on the same paths has
\* returned: if no file changed, the two catalogs hold the same records (the
\* same ids with the same field values), whatever the two traversal orders;
\* and, changed or not, a record of the first and a record of the second have
\* the same id exactly when they have the same path, and the records of one
\* catalog have distinct ids.
C12_RescanIsIdempotent ==
    (s_pc = "returned" /\ s_scan = 2) =>
        /\ ~s_changed =>
              /\ Elements(s_tracks) = Elements(s_first)
              /\ Len(s_tracks) = Len(s_first)
        /\ \A i \in 1..Len(s_first), j \in 1..Len(s_tracks) :
              (s_first[i].path = s_tracks[j].path) <=> (s_first[i].id = s_tracks[j].id)
        /\ \A i, j \in 1..Len(s_tracks) :
              i # j => s_tracks[i].id # s_tracks[j].id

\* an unchanged tree has been scanned twice in two different orders, each
\* scan yielding the same two or more records
C12_Witness ==
    /\ s_pc = "returned"
    /\ s_scan = 2
    /\ ~s_changed
    /\ Len(s_first) >= 2
    /\ s_tracks # s_first
    /\ Elements(s_tracks) = Elements(s_first)

-----------------------------------------------------------------------------
(* Spec: the server.  Requests run on threads; a handler that reads the    *)
(* global music_library once and returns is one step, scan_library is one  *)
(* step per loop iteration, and get_library reads the global twice.  The   *)
(* filesystem changes under the server at any time.                        *)

Threads == {1, 2}

\* the files MUSIC_DIR may hold, in traversal order, with their contents
Tree ==
    << [path |-> [dirs |-> MUSIC_DIR, name |-> N_a],
        file |-> [F_mp3 EXCEPT !.tags =
                    <<[key |-> TIT2, value |-> [list |-> FALSE, str |-> T_Song]],
                      [key |-> TALB, value |-> [list |-> FALSE, str |-> T_Xy]]>>]],
       [path |-> [dirs |-> MUSIC_DIR, name |-> N_c], file |-> F_corrupt],
       [path |-> [dirs |-> SubRoot, name |-> N_B],
        file |-> [F_flac EXCEPT !.tags =
                    <<[key |-> ARTIST, value |-> [list |-> TRUE, items |-> <<T_Song>>]],
                      [key |-> ALBUM, value |-> [list |-> TRUE, items |-> <<T_Xy>>]]>>]] >>

TreePaths == { Tree[i].path : i \in 1..Len(Tree) }

\* the ids a client asks for: those of two files of the tree and one of no file
StreamIds ==
    { Md5Hex(Tree[1].path), Md5Hex(Tree[3].path),
      Md5Hex([dirs |-> MUSIC_DIR, name |-> N_notes]) }

\* the queries a client sends
Queries == { <<>>, <<"S","O">>, <<"b">>, <<"x","Y">>, <<"z">> }

IdleThread ==
    [pc |-> "idle", op |-> "none", idx |-> 0, tracks |-> <<>>,
     arg |-> <<>>, result |-> <<>>]

Init ==
    /\ rootExists \in BOOLEAN
    /\ disk \in (IF rootExists THEN SUBSET TreePaths ELSE {{}})
    /\ music_library = <<>>
    /\ th = [t \in Threads |-> IdleThread]
    /\ finished = {}
    /\ nscans = 0
    /\ ExtractIdle
    /\ ScanIdle

\* scan_library, lines 171-172 and scan_directory lines 46-53: the request starts;
\* scan_directory returns at line 51 when MUSIC_DIR is missing
ScanLibraryBegin(t) ==
    /\ th[t].pc = "idle"
    /\ nscans < MaxScans
    /\ nscans' = nscans + 1
    /\ th' = [th EXCEPT ![t] = [IdleThread EXCEPT
                !.op = "scan",
                !.pc = IF rootExists THEN "walk" ELSE "ret_missing"]]
    /\ finished' = IF rootExists THEN finished ELSE finished \cup {<<>>}
    /\ UNCHANGED <<rootExists, disk, music_library, extractVars, scanVars>>

\* ScanLibraryVisit building the list in the global itself
ScanLibraryVisitPublishes(t) ==
    /\ th[t].pc = "walk"
    /\ th[t].idx < Len(Tree)
    /\ LET entry == Tree[th[t].idx + 1]
           tracks == IF entry.path \in disk THEN VisitFile(th[t].tracks, entry)
                     ELSE th[t].tracks
       IN  /\ th' = [th EXCEPT ![t].idx = @ + 1, ![t].tracks = tracks]
           /\ music_library' = tracks
    /\ UNCHANGED <<rootExists, disk, finished, nscans, extractVars, scanVars>>

\* scan_directory lines 55-62: one iteration, on the next file of the tree if
\* it is on disk when the walk reaches it
ScanLibraryVisit(t) ==
    /\ th[t].pc = "walk"
    /\ th[t].idx < Len(Tree)
    /\ LET entry == Tree[th[t].idx + 1]
       IN  th' = [th EXCEPT
                ![t].idx = @ + 1,
                ![t].tracks = IF entry.path \in disk THEN VisitFile(@, entry) ELSE @]
    /\ UNCHANGED <<rootExists, disk, music_library, finished, nscans,
                   extractVars, scanVars>>

\* scan_directory lines 64-65: the walk is over and the list is returned
ScanLibraryReturn(t) ==
    /\ th[t].pc = "walk"
    /\ th[t].idx = Len(Tree)
    /\ th' = [th EXCEPT ![t].pc = "ret_walked"]
    /\ finished' = finished \cup {th[t].tracks}
    /\ UNCHANGED <<rootExists, disk, music_library, nscans, extractVars, scanVars>>

\* ScanLibraryAssign keeping the old catalog when the scan found nothing
ScanLibraryAssignUnlessEmpty(t) ==
    /\ th[t].pc \in {"ret_missing", "ret_walked"}
    /\ music_library' = IF th[t].tracks = <<>> THEN music_library ELSE th[t].tracks
    /\ th' = [th EXCEPT ![t].pc = "respond"]
    /\ UNCHANGED <<rootExists, disk, finished, nscans, extractVars, scanVars>>

\* line 172: the returned list is bound to the global
ScanLibraryAssign(t) ==
    /\ th[t].pc \in {"ret_missing", "ret_walked"}
    /\ music_library' = th[t].tracks
    /\ th' = [th EXCEPT ![t].pc = "respond"]
    /\ UNCHANGED <<rootExists, disk, finished, nscans, extractVars, scanVars>>

\* lines 173-176: the response reads the global again
ScanLibraryRespond(t) ==
    /\ th[t].pc = "respond"
    /\ th' = [th EXCEPT ![t].pc = "done", ![t].tracks = <<>>, ![t].idx = 0,
                        ![t].result = [total |-> Len(music_library)]]
    /\ UNCHANGED <<rootExists, disk, music_library, finished, nscans,
                   extractVars, scanVars>>

\* get_library, line 164: the first read of the global
GetLibraryTracks(t) ==
    /\ th[t].pc = "idle"
    /\ th' = [th EXCEPT ![t] = [IdleThread EXCEPT
                !.op = "library", !.pc = "total", !.result = music_library]]
    /\ UNCHANGED <<rootExists, disk, music_library, finished, nscans,
                   extractVars, scanVars>>

\* get_library, line 165: the second read of the global
GetLibraryTotal(t) ==
    /\ th[t].pc = "total"
    /\ th' = [th EXCEPT ![t].pc = "done",
                        ![t].result = [tracks |-> @, total |-> Len(music_library)]]
    /\ UNCHANGED <<rootExists, disk, music_library, finished, nscans,
                   extractVars, scanVars>>

\* stream_track(track_id), lines 178-199
StreamTrack(t, track_id) ==
    /\ th[t].pc = "idle"
    /\ th' = [th EXCEPT ![t] = [IdleThread EXCEPT
                !.op = "stream", !.pc = "done", !.arg = track_id,
                !.result = stream_track(music_library, disk, track_id)]]
    /\ UNCHANGED <<rootExists, disk, music_library, finished, nscans,
                   extractVars, scanVars>>

\* search_tracks with ?q=, lines 201-215
SearchTracks(t, q) ==
    /\ th[t].pc = "idle"
    /\ th' = [th EXCEPT ![t] = [IdleThread EXCEPT
                !.op = "search", !.pc = "done", !.arg = q,
                !.result = search_tracks(music_library, q)]]
    /\ UNCHANGED <<rootExists, disk, music_library, finished, nscans,
                   extractVars, scanVars>>

\* the response is sent and the thread takes the next request
Finish(t) ==
    /\ th[t].pc = "done"
    /\ th' = [th EXCEPT ![t] = IdleThread]
    /\ UNCHANGED <<rootExists, disk, music_library, finished, nscans,
                   extractVars, scanVars>>

\* the filesystem: a file of the tree appears
CreateFile(p) ==
    /\ rootExists
    /\ p \notin disk
    /\ disk' = disk \cup {p}
    /\ UNCHANGED <<rootExists, music_library, th, finished, nscans,
                   extractVars, scanVars>>

\* the filesystem: a file is deleted
DeleteFile(p) ==
    /\ p \in disk
    /\ disk' = disk \ {p}
    /\ UNCHANGED <<rootExists, music_library, th, finished, nscans,
                   extractVars, scanVars>>

\* the filesystem: MUSIC_DIR is removed with all it holds
RemoveRoot ==
    /\ rootExists
    /\ rootExists' = FALSE
    /\ disk' = {}
    /\ UNCHANGED <<music_library, th, finished, nscans, extractVars, scanVars>>

\* the filesystem: MUSIC_DIR is created, empty
CreateRoot ==
    /\ ~rootExists
    /\ rootExists' = TRUE
    /\ UNCHANGED <<disk, music_library, th, finished, nscans, extractVars, scanVars>>

Next ==
    \/ \E t \in Threads : ScanLibraryBegin(t)
    \/ \E t \in Threads : ScanLibraryVisit(t)
    \/ \E t \in Threads : ScanLibraryReturn(t)
    \/ \E t \in Threads : ScanLibraryAssign(t)
    \/ \E t \in Threads : ScanLibraryRespond(t)
    \/ \E t \in Threads : GetLibraryTracks(t)
    \/ \E t \in Threads : GetLibraryTotal(t)
    \/ \E t \in Threads, track_id \in StreamIds : StreamTrack(t, track_id)
    \/ \E t \in Threads, q \in Queries : SearchTracks(t, q)
    \/ \E t \in Threads : Finish(t)
    \/ \E p \in TreePaths : CreateFile(p)
    \/ \E p \in TreePaths : DeleteFile(p)
    \/ RemoveRoot
    \/ CreateRoot

Spec == Init /\ [][Next]_vars

-----------------------------------------------------------------------------
(* Claims about the server, under Spec.                                    *)

\* the catalogs a reader may see: the empty startup catalog, or the list a
\* finished scan_directory call returned
CompleteCatalogs == {<<>>} \cup finished

\* C1: the global catalog, and every catalog a reader has read from it
\* (get_library's tracks, search_tracks's result for the empty query), is the
\* empty startup catalog or the complete list returned by one finished
\* scan_directory call.
C1_ReadersSeeCompleteSnapshots ==
    /\ music_library \in CompleteCatalogs
    /\ \A t \in Threads :
          /\ (th[t].op = "library" /\ th[t].pc = "total")
                => th[t].result \in CompleteCatalogs
          /\ (th[t].op = "library" /\ th[t].pc = "done")
                => th[t].result.tracks \in CompleteCatalogs
          /\ (th[t].op = "search" /\ th[t].arg = <<>>)
                => th[t].result \in CompleteCatalogs

\* a reader holds a non-empty catalog while a rescan is part-way through the
\* tree with a different list in hand
C1_Witness ==
    \E t, u \in Threads :
        /\ th[t].op = "library" /\ th[t].pc = "total"
        /\ th[t].result # <<>>
        /\ th[u].pc = "walk" /\ th[u].idx > 0
        /\ th[u].tracks # <<>>
        /\ th[u].tracks # th[t].result

Scanning(t) == th[t].pc \in {"walk", "ret_missing", "ret_walked"}

\* C2 as stated: at most one request is between starting its scan and
\* replacing music_library.
C2_AtMostOneScan ==
    \A t, u \in Threads : (Scanning(t) /\ Scanning(u)) => t = u

\* C3: in every step in which stream_track answers, it answers 404 or hands a
\* path over; 404 whenever no record of the catalog has the id or the first
\* such record's path is not on disk; and a path is handed over only when
\* it is on disk and is the path of the catalog's record with that id.
C3_StreamOnlyExistingCatalogFiles ==
    [][ \A t \in Threads :
          (th[t].pc = "idle" /\ th'[t].op = "stream") =>
            LET id == th'[t].arg
                r == th'[t].result
                hits == { i \in 1..Len(music_library) : music_library[i].id = id }
            IN  /\ r.status \in {200, 404}
                /\ (hits = {} \/ \A i \in hits : music_library[i].path \notin disk)
                      => r.status = 404
                /\ r.status = 200 =>
                      /\ r.file \in disk
                      /\ \E i \in hits : music_library[i].path = r.file
                      /\ Md5Hex(r.file) = id ]_vars

\* stream_track has answered 404 for an id that the catalog holds (its file was
\* deleted after the scan), while another thread was handed a file
C3_Witness ==
    \E t, u \in Threads :
        /\ th[t].op = "stream" /\ th[t].result = [status |-> 404]
        /\ \E i \in 1..Len(music_library) :
              music_library[i].id = th[t].arg /\ music_library[i].path \notin disk
        /\ th[u].op = "stream" /\ th[u].result.status = 200

\* C5: a scan started while MUSIC_DIR is missing returns the empty list at once
\* (no exception state exists for it), and the assignment that follows makes
\* music_library empty whatever it held; the request then answers.
C5_MissingRootGivesEmptyCatalog ==
    [][ \A t \in Threads :
          /\ (th[t].pc = "idle" /\ th'[t].op = "scan" /\ ~rootExists)
                => (th'[t].pc = "ret_missing" /\ th'[t].tracks = <<>>)
          /\ (th[t].pc = "ret_missing" /\ th'[t] # th[t])
                => (music_library' = <<>> /\ th'[t].pc = "respond")
          /\ (th[t].pc = "respond" /\ th'[t] # th[t])
                => (th'[t].pc = "done"
                      /\ th'[t].result = [total |-> Len(music_library)]) ]_vars

\* a rescan against the missing directory is about to replace a non-empty
\* catalog
C5_Witness ==
    \E t \in Threads :
        /\ th[t].pc = "ret_missing"
        /\ ~rootExists
        /\ music_library # <<>>

\* s is a substring of t, by decomposition
Occurs(s, t) ==
    \E i \in 1..(Len(t) + 1), j \in 0..Len(t) :
        i <= j + 1 /\ SubSeq(t, i, j) = s

\* the records the query selects: the lowercased query occurs in the lowercased
\* title, artist or album
Selected(track, q) ==
    \/ Occurs(Lower(q), Lower(track.title))
    \/ Occurs(Lower(q), Lower(track.artist))
    \/ Occurs(Lower(q), Lower(track.album))

\* C6: in every step in which search_tracks answers, the answer is the
\* catalog's selected records in catalog order, all of them records of the
\* catalog, the whole catalog for the empty query, and the catalog is unchanged.
C6_SearchIsCaseInsensitiveFilter ==
    [][ \A t \in Threads :
          (th[t].pc = "idle" /\ th'[t].op = "search") =>
            LET q == th'[t].arg
                r == th'[t].result
            IN  /\ r = SelectSeq(music_library, LAMBDA track : Selected(track, q))
                /\ \A i \in 1..Len(r) :
                      \E j \in 1..Len(music_library) : r[i] = music_library[j]
                /\ q = <<>> => r = music_library
                /\ music_library' = music_library ]_vars

\* a query in upper case has selected, from a catalog of two records, one by
\* its title and one by its artist
C6_Witness ==
    \E t \in Threads :
        /\ th[t].op = "search" /\ th[t].arg = <<"S","O">>
        /\ Len(th[t].result) = 2
        /\ th[t].result[1].title = T_Song
        /\ th[t].result[2].artist = T_Song
        /\ th[t].result[2].title # T_Song

=============================================================================
